---- MODULE Spec2Model ----
(***************************************************************************)
(* wait-for-vercel-preview: the run() orchestration and its three bounded  *)
(* retry loops (waitForDeploymentToStart, waitForStatus, waitForUrl) with  *)
(* the password exchange getPassword that waitForUrl performs per attempt. *)
(*                                                                         *)
(* The program is a single async control flow.  Every action below is one  *)
(* request to the outside world (GitHub API, preview host) together with   *)
(* all the code that handles its answer, up to the point where the next    *)
(* request is issued; the answer is the action's input, drawn from a       *)
(* bounded set.  The sleep between two iterations of a loop is a step of   *)
(* its own.  The answer to a request is a local variable of the iteration  *)
(* that made it: it is dropped when the iteration ends, and when the       *)
(* caller has consumed the result.                                         *)
(***************************************************************************)
EXTENDS Integers, Sequences, FiniteSets, TLC

\* ------------------------------------------------------------------ bounds
MaxTimeoutInput == 3      \* largest `max_timeout` input (seconds)
MaxIntervalInput == 1     \* largest `check_interval` input (seconds)
MaxDeployments == 2       \* longest list returned by listDeployments
MaxStatuses == 2          \* longest list returned by listDeploymentStatuses
MaxCookies == 2           \* most cookies in one Set-Cookie header

\* --------------------------------------------------------------- constants
DefaultMaxTimeout == 60
DefaultCheckInterval == 2
ValidateStatusLow == 200
ValidateStatusHigh == 307

actorName == "vercel[bot]"
Undefined == "undefined"

SeqsUpTo(S, n) == UNION {[1..k -> S] : k \in 0..n}

\* ------------------------------------------------------------- environment
\* Inputs of the action as core.getInput sees them.  max_timeout and
\* check_interval are the values of Number(input); 0 stands for every falsy
\* value (empty input, "0", not a number).
Tokens == {"", " ", "ghp_token"}
BooleanInputs == {"true", "false", ""}
InputSet ==
  [token : Tokens,
   vercel_password : {"", "hunter2"},
   vercel_protection_bypass_header : {"", "bypass-secret"},
   max_timeout : 1..MaxTimeoutInput,
   check_interval : 0..MaxIntervalInput,
   allow_inactive : BooleanInputs]

\* github.context: the pull_request payload (absent, present without a
\* number, present with a number) and the commit sha of the event.
ContextSet ==
  {[pull_request |-> "absent", sha |-> ""],
   [pull_request |-> "absent", sha |-> "abc"],
   [pull_request |-> "no_number", sha |-> "abc"],
   [pull_request |-> "numbered", sha |-> "abc"]}

\* octokit.rest.pulls.get
PullResponses ==
  {[outcome |-> "rejected", status |-> 0, sha |-> ""]}
    \cup [outcome : {"resolved"}, status : {200, 304}, sha : {"", "prsha"}]

\* octokit.rest.repos.listDeployments
\* (login "null": a deployment without creator)
Deployments ==
  {[id |-> 1, login |-> actorName], [id |-> 2, login |-> actorName],
   [id |-> 3, login |-> "dependabot[bot]"], [id |-> 4, login |-> "null"]}
NullDeployment == [id |-> 0, login |-> "null"]
DeploymentResponses ==
  {[outcome |-> "rejected", data |-> <<>>]}
    \cup [outcome : {"resolved"}, data : SeqsUpTo(Deployments, MaxDeployments)]

\* octokit.rest.repos.listDeploymentStatuses (newest first)
States ==
  {"success", "inactive", "pending", "error", "failure", "queued",
   "in_progress"}
TargetUrls == {Undefined, "", "https://preview.example.com"}
LatestStatuses == [state : States, target_url : TargetUrls]
OlderStatuses ==
  [state : {"success", "queued"},
   target_url : {"https://older.example.com"}]
UndefinedStatus == [state |-> Undefined, target_url |-> Undefined]
StatusLists ==
  {<<>>} \cup
  {<<h>> \o t : h \in LatestStatuses,
                t \in SeqsUpTo(OlderStatuses, MaxStatuses - 1)}
StatusResponses ==
  {[outcome |-> "rejected", data |-> <<>>]}
    \cup [outcome : {"resolved"}, data : StatusLists]

\* no request of the iteration has been answered (yet)
NoResponse == [outcome |-> "none", data |-> <<>>]

\* the POST of the password: no response at all, or a response with a status
\* and possibly a set-cookie header (already split into cookies).  Every
\* status comes without header and with the cookie of a token; the status
\* Vercel answers with, 303, comes with every list of cookies.
Cookies ==
  {[name |-> "_vercel_jwt", value |-> "abc123"],
   [name |-> "_vercel_jwt", value |-> ""],
   [name |-> "other", value |-> "xyz"]}
PostStatuses == {199, 200, 303, 306, 307}
PostResponses ==
  {[outcome |-> "no_response", status |-> 0, hasSetCookie |-> FALSE,
    cookies |-> <<>>]}
    \cup [outcome : {"response"}, status : PostStatuses,
          hasSetCookie : {FALSE}, cookies : {<<>>}]
    \cup [outcome : {"response"}, status : PostStatuses,
          hasSetCookie : {TRUE},
          cookies : {<<[name |-> "_vercel_jwt", value |-> "abc123"]>>}]
    \cup [outcome : {"response"}, status : {303},
          hasSetCookie : {TRUE}, cookies : SeqsUpTo(Cookies, MaxCookies)]
NoPostResponse ==
  [outcome |-> "none", status |-> 0, hasSetCookie |-> FALSE, cookies |-> <<>>]

\* the health-check GET
GetResponses ==
  {[outcome |-> "no_response", status |-> 0]}
    \cup [outcome : {"response"}, status : {200, 204, 404, 500}]
NoGetResponse == [outcome |-> "none", status |-> 0]

NoHeaders == [Cookie |-> Undefined, bypass |-> Undefined]

\* no core.setOutput yet
NoOutputs == [url |-> Undefined, vercel_jwt |-> Undefined]

\* ------------------------------------------------------------------- state
VARIABLES
  inputs,         \* the action's inputs
  context,        \* github.context
  pc,             \* where run() is suspended
  sha,            \* run: sha
  deployments,    \* waitForDeploymentToStart: last listDeployments answer
  deployment,     \* result of waitForDeploymentToStart
  iDeployment,    \* waitForDeploymentToStart: i
  statuses,       \* waitForStatus: last listDeploymentStatuses answer
  status,         \* result of waitForStatus
  iStatus,        \* waitForStatus: i
  targetUrl,      \* run: targetUrl
  jwtResponse,    \* getPassword: response of the last POST
  headers,        \* waitForUrl: headers of the current attempt
  getResponse,    \* waitForUrl: answer to the last GET
  sentHeaders,    \* headers the last GET carried
  iUrl,           \* waitForUrl: i
  outputs,        \* core.setOutput
  failures,       \* core.setFailed messages, in order
  calls,          \* number of requests made, per kind
  sleeps,         \* number of wait(checkIntervalInMilliseconds) calls
  iterationsCall  \* calculateIterations: arguments and returned value

vars ==
  <<inputs, context, pc, sha, deployments, deployment, iDeployment, statuses,
    status, iStatus, targetUrl, jwtResponse, headers, getResponse,
    sentHeaders, iUrl, outputs, failures, calls, sleeps, iterationsCall>>

depVars == <<deployments, deployment, iDeployment>>
statusVars == <<statuses, status, iStatus>>
urlVars == <<jwtResponse, headers, getResponse, sentHeaders, iUrl>>

\* --------------------------------------------------------- pure functions
\* Math.floor(maxTimeoutSec / (checkIntervalInMilliseconds / 1000)); run()
\* passes whole seconds times 1000, for which the division by 1000 is exact
\* and the value is that of calculateIterationsBinary64 below
\* (IterationsOfRunExact)
calculateIterations(maxTimeoutSec, checkIntervalInMilliseconds) ==
  (maxTimeoutSec * 1000) \div checkIntervalInMilliseconds

\* calculateIterations has not been called on its own
NoCall ==
  [maxTimeoutSec |-> 0, checkIntervalInMilliseconds |-> 0,
   returned |-> FALSE, value |-> 0]

\* ------------------------------------------------ binary64 (JS numbers)
\* Naturals below 2^78 as three limbs of 26 bits, least significant first.
LimbBits == 26
Limb == 2^LimbBits
BigZero == <<0, 0, 0>>
BigOfInt(n) == <<n % Limb, n \div Limb, 0>>
BigToInt(x) == x[1] + x[2] * Limb

\* limb i of x, 0 outside 1..3
BigLimb(x, i) == IF i \in 1..3 THEN x[i] ELSE 0

\* x * 2^k and floor(x / 2^k)
BigShl(x, k) ==
  LET w == k \div LimbBits
      b == k % LimbBits
  IN [i \in 1..3 |->
        (BigLimb(x, i - w) % 2^(LimbBits - b)) * 2^b
          + BigLimb(x, i - w - 1) \div 2^(LimbBits - b)]
BigShr(x, k) ==
  LET w == k \div LimbBits
      b == k % LimbBits
  IN [i \in 1..3 |->
        BigLimb(x, i + w) \div 2^b
          + (BigLimb(x, i + w + 1) % 2^b) * 2^(LimbBits - b)]

BigGeq(x, y) ==
  \/ x[3] > y[3]
  \/ x[3] = y[3] /\ x[2] > y[2]
  \/ x[3] = y[3] /\ x[2] = y[2] /\ x[1] >= y[1]
BigSub(x, y) ==
  LET b1 == IF x[1] < y[1] THEN 1 ELSE 0
      b2 == IF x[2] - b1 < y[2] THEN 1 ELSE 0
  IN <<x[1] - y[1] + b1 * Limb, x[2] - b1 - y[2] + b2 * Limb,
       x[3] - b2 - y[3]>>
BigSucc(x) ==
  LET s1 == x[1] + 1
      s2 == x[2] + s1 \div Limb
  IN <<s1 % Limb, s2 % Limb, x[3] + s2 \div Limb>>

\* A binary64 number m * 2^e with 2^52 <= m < 2^53, or zero (m = 0).  The
\* numbers of this program are far from the subnormal and the infinite.
SignificandBits == 53
Two52 == BigShl(BigOfInt(1), SignificandBits - 1)
Two53 == BigShl(BigOfInt(1), SignificandBits)
DoubleZero == [m |-> BigZero, e |-> 0]

\* the binary64 number of an integer 0 <= n < 2^30 (exact)
DoubleOfInt(n) ==
  IF n = 0 THEN DoubleZero
  ELSE LET k == CHOOSE j \in 0..29 : 2^j <= n /\ n < 2^(j + 1)
       IN [m |-> BigShl(BigOfInt(n), SignificandBits - 1 - k),
           e |-> k - (SignificandBits - 1)]

\* one step of the long division by d: the next bit of the quotient q
DivStep(s, d) ==
  LET r2 == BigShl(s.r, 1)
      q2 == BigShl(s.q, 1)
  IN IF BigGeq(r2, d)
     THEN [q |-> BigSucc(q2), r |-> BigSub(r2, d), k |-> s.k - 1]
     ELSE [q |-> q2, r |-> r2, k |-> s.k - 1]

RECURSIVE DivBits(_, _)
DivBits(s, d) == IF s.k = 0 THEN s ELSE DivBits(DivStep(s, d), d)

\* a / b of two binary64 numbers, b # 0: the quotient of the significands
\* to 53 bits, rounded to nearest, ties to even
DoubleDiv(a, b) ==
  IF a.m = BigZero THEN DoubleZero
  ELSE LET lead == BigGeq(a.m, b.m)
           r0 == IF lead THEN BigSub(a.m, b.m)
                 ELSE BigSub(BigShl(a.m, 1), b.m)
           e0 == a.e - b.e - (SignificandBits - 1) - (IF lead THEN 0 ELSE 1)
           s == DivBits([q |-> BigOfInt(1), r |-> r0,
                         k |-> SignificandBits - 1], b.m)
           r2 == BigShl(s.r, 1)
           roundBit == BigGeq(r2, b.m)
           sticky == IF roundBit THEN r2 # b.m ELSE r2 # BigZero
           up == roundBit /\ (sticky \/ s.q[1] % 2 = 1)
           q1 == IF up THEN BigSucc(s.q) ELSE s.q
       IN IF q1 = Two53 THEN [m |-> Two52, e |-> e0 + 1]
          ELSE [m |-> q1, e |-> e0]

\* Math.floor of a binary64 number 0 <= a < 2^31
DoubleFloor(a) ==
  IF a.e >= 0 THEN BigToInt(BigShl(a.m, a.e))
  ELSE IF 0 - a.e >= SignificandBits THEN 0
  ELSE BigToInt(BigShr(a.m, 0 - a.e))

\* Math.floor(maxTimeoutSec / (checkIntervalInMilliseconds / 1000)), in the
\* binary64 arithmetic of JavaScript numbers
calculateIterationsBinary64(maxTimeoutSec, checkIntervalInMilliseconds) ==
  DoubleFloor(
    DoubleDiv(DoubleOfInt(maxTimeoutSec),
              DoubleDiv(DoubleOfInt(checkIntervalInMilliseconds),
                        DoubleOfInt(1000))))

\* Number(core.getInput('max_timeout')) || 60
MAX_TIMEOUT ==
  IF inputs.max_timeout = 0 THEN DefaultMaxTimeout ELSE inputs.max_timeout

\* (Number(core.getInput('check_interval')) || 2) * 1000
CHECK_INTERVAL_IN_MS ==
  (IF inputs.check_interval = 0 THEN DefaultCheckInterval
                                ELSE inputs.check_interval) * 1000

ALLOW_INACTIVE == inputs.allow_inactive = "true"
VERCEL_PASSWORD == inputs.vercel_password
VERCEL_PROTECTION_BYPASS_HEADER == inputs.vercel_protection_bypass_header

iterations == calculateIterations(MAX_TIMEOUT, CHECK_INTERVAL_IN_MS)

\* the messages of core.setFailed
StatusTimeout ==
  "Timeout reached: Unable to wait for an deployment to be successful"
UrlTimeout == "Timeout reached: Unable to connect"
NoDeploymentFound == "no vercel deployment found, exiting..."
NoTargetUrl == "no target_url found in the status check"
NoSha == "Unable to determine SHA. Exiting..."
NoPullRequestNumber == "No pull request number was found"
NoPullRequestInformation ==
  "Could not get information about the current pull request"
NoToken == "Required field token was not provided"

setFailed(message) == failures' = Append(failures, message)
request(kind) == calls' = [calls EXCEPT ![kind] = @ + 1]
wait == sleeps' = sleeps + 1

\* ------------------------------------------------------------- run: start
Init ==
  /\ inputs \in InputSet
  /\ context \in ContextSet
  /\ pc = "run"
  /\ sha = Undefined
  /\ deployments = NoResponse
  /\ deployment = NullDeployment
  /\ iDeployment = 0
  /\ statuses = NoResponse
  /\ status = UndefinedStatus
  /\ iStatus = 0
  /\ targetUrl = Undefined
  /\ jwtResponse = NoPostResponse
  /\ headers = NoHeaders
  /\ getResponse = NoGetResponse
  /\ sentHeaders = NoHeaders
  /\ iUrl = 0
  /\ outputs = NoOutputs
  /\ failures = <<>>
  /\ calls = [pulls_get |-> 0, listDeployments |-> 0,
              listDeploymentStatuses |-> 0, post |-> 0, get |-> 0]
  /\ sleeps = 0
  /\ iterationsCall = NoCall

\* run(), from its first line to its first request: the inputs, the token
\* check and the choice of the sha.  A core.getInput that throws (required
\* token not supplied, allow_inactive not a boolean) lands in run's catch.
\* With a pull_request payload without a number getShaForPullRequest reports
\* and returns undefined, and run reports again.
runStart ==
  /\ pc = "run"
  /\ UNCHANGED iterationsCall
  /\ UNCHANGED <<inputs, context, depVars, statusVars, targetUrl, urlVars,
                 outputs, calls, sleeps>>
  /\ IF inputs.token = ""
     THEN /\ setFailed("Input required and not supplied: token")
          /\ pc' = "done" /\ sha' = sha
     ELSE IF inputs.allow_inactive \notin {"true", "false"}
     THEN /\ setFailed("Input does not meet YAML 1.2 Core Schema specification: allow_inactive")
          /\ pc' = "done" /\ sha' = sha
     ELSE IF inputs.token = " "
     THEN /\ setFailed(NoToken)
          /\ pc' = "done" /\ sha' = sha
     ELSE IF context.pull_request = "numbered"
     THEN /\ pc' = "getShaForPullRequest"
          /\ UNCHANGED <<sha, failures>>
     ELSE IF context.pull_request = "no_number"
     THEN /\ failures' = failures \o <<NoPullRequestNumber, NoSha>>
          /\ pc' = "done" /\ sha' = sha
     ELSE IF context.sha # ""
     THEN /\ sha' = context.sha
          /\ pc' = "waitForDeploymentToStart"
          /\ UNCHANGED failures
     ELSE /\ setFailed(NoSha)
          /\ pc' = "done" /\ sha' = sha

\* getShaForPullRequest: octokit.rest.pulls.get and what run does with the
\* result.  A throwing request lands in run's catch.
getShaForPullRequest ==
  /\ pc = "getShaForPullRequest"
  /\ UNCHANGED iterationsCall
  /\ UNCHANGED <<inputs, context, depVars, statusVars, targetUrl, urlVars,
                 outputs, sleeps>>
  /\ request("pulls_get")
  /\ \E currentPR \in PullResponses :
       IF currentPR.outcome = "rejected"
       THEN /\ setFailed("HttpError")
            /\ pc' = "done" /\ sha' = sha
       ELSE IF currentPR.status # 200
       THEN /\ failures' = failures \o
                 <<NoPullRequestInformation, NoSha>>
            /\ pc' = "done" /\ sha' = sha
       ELSE IF currentPR.sha = ""
       THEN /\ setFailed(NoSha)
            /\ pc' = "done" /\ sha' = sha
       ELSE /\ sha' = currentPR.sha
            /\ pc' = "waitForDeploymentToStart"
            /\ UNCHANGED failures

\* ------------------------------------------------ waitForDeploymentToStart
\* (variant: the last matching deployment instead of the first)
findDeploymentLast(data) ==
  LET matching == {k \in 1..Len(data) : data[k].login = actorName}
  IN IF Len(data) > 0 /\ matching # {}
     THEN data[CHOOSE k \in matching : \A m \in matching : k >= m]
     ELSE NullDeployment

\* deployments.data.find(d => d.creator?.login === actorName), guarded by
\* deployments.data.length > 0; NullDeployment when nothing is found
findDeployment(data) ==
  LET matching == {k \in 1..Len(data) : data[k].login = actorName}
  IN IF Len(data) > 0 /\ matching # {}
     THEN data[CHOOSE k \in matching : \A m \in matching : k <= m]
     ELSE NullDeployment

\* for (let i = 0; i < iterations; i++)
deploymentLoop(i) == i < iterations

\* one iteration of the loop: the request, then either the return of the
\* deployment found or the call of wait() before the next iteration
waitForDeploymentToStartAttempt ==
  /\ pc = "waitForDeploymentToStart"
  /\ deploymentLoop(iDeployment)
  /\ UNCHANGED iterationsCall
  /\ UNCHANGED <<inputs, context, sha, statusVars, targetUrl, urlVars,
                 outputs, failures>>
  /\ request("listDeployments")
  /\ \E response \in DeploymentResponses :
       /\ deployments' = response
       /\ IF response.outcome = "resolved"
             /\ findDeployment(response.data) # NullDeployment
          THEN /\ deployment' = findDeployment(response.data)
               /\ pc' = "deploymentReturned"
               /\ UNCHANGED <<iDeployment, sleeps>>
          ELSE /\ wait
               /\ pc' = "deploymentWait"
               /\ UNCHANGED <<iDeployment, deployment>>

\* the sleep of an iteration ends: i++
waitForDeploymentToStartNext ==
  /\ pc = "deploymentWait"
  /\ iDeployment' = iDeployment + 1
  /\ deployments' = NoResponse
  /\ pc' = "waitForDeploymentToStart"
  /\ UNCHANGED iterationsCall
  /\ UNCHANGED <<inputs, context, sha, deployment, statusVars, targetUrl,
                 urlVars, outputs, failures, calls, sleeps>>

\* (variant: the waiter reports the failure itself, as waitForStatus does)
waitForDeploymentToStartExhaustedReports ==
  /\ pc = "waitForDeploymentToStart"
  /\ ~deploymentLoop(iDeployment)
  /\ deployment' = NullDeployment
  /\ setFailed(NoDeploymentFound)
  /\ pc' = "deploymentReturned"
  /\ UNCHANGED iterationsCall
  /\ UNCHANGED <<inputs, context, sha, deployments, iDeployment, statusVars,
                 targetUrl, urlVars, outputs, calls, sleeps>>

\* the loop ends without a deployment: return null
waitForDeploymentToStartExhausted ==
  /\ pc = "waitForDeploymentToStart"
  /\ ~deploymentLoop(iDeployment)
  /\ deployment' = NullDeployment
  /\ pc' = "deploymentReturned"
  /\ UNCHANGED iterationsCall
  /\ UNCHANGED <<inputs, context, sha, deployments, iDeployment, statusVars,
                 targetUrl, urlVars, outputs, failures, calls, sleeps>>

\* run() after waitForDeploymentToStart has returned; the deployment is
\* not looked at again once its id has been passed to waitForStatus
runAfterDeployment ==
  /\ pc = "deploymentReturned"
  /\ deployments' = NoResponse
  /\ IF deployment = NullDeployment
     THEN /\ setFailed(NoDeploymentFound)
          /\ pc' = "done"
     ELSE /\ pc' = "waitForStatus"
          /\ UNCHANGED failures
  /\ deployment' = NullDeployment
  /\ UNCHANGED iterationsCall
  /\ UNCHANGED <<inputs, context, sha, iDeployment, statusVars, targetUrl,
                 urlVars, outputs, calls, sleeps>>

\* ------------------------------------------------------------ waitForStatus
\* (variant: any entry of the list with state "success" is accepted)
statusAcceptedAnyEntry(response, allowInactive) ==
  /\ response.outcome = "resolved"
  /\ \/ \E k \in 1..Len(response.data) : response.data[k].state = "success"
     \/ /\ allowInactive = TRUE
        /\ Len(response.data) > 0
        /\ response.data[1].state = "inactive"

\* (variant: "inactive" is accepted whatever allowInactive is)
statusAcceptedInactive(response, allowInactive) ==
  /\ response.outcome = "resolved"
  /\ Len(response.data) > 0
  /\ response.data[1].state \in {"success", "inactive"}

\* the try block of one iteration: TRUE when it returns statuses.data[0],
\* FALSE when it throws (the request itself, no status, or a state that is
\* not accepted)
statusAccepted(response, allowInactive) ==
  IF response.outcome # "resolved" THEN FALSE
  ELSE IF ~(Len(response.data) > 0) THEN FALSE
  ELSE IF allowInactive = TRUE /\ response.data[1].state = "inactive" THEN TRUE
  ELSE IF response.data[1].state # "success" THEN FALSE
  ELSE TRUE

\* (variant: one budget for the run, the polls of waitForDeploymentToStart
\* count against it)
statusLoopShared(i) == iDeployment + i < iterations

\* (variant: the loop runs while i <= iterations)
statusLoopInclusive(i) == i <= iterations

\* for (let i = 0; i < iterations; i++)
statusLoop(i) == i < iterations

\* (variant: the catch block reports the error)
waitForStatusCatchReports ==
  /\ setFailed("Deployment unavailable or not successful")
  /\ wait
  /\ pc' = "statusWait"
  /\ UNCHANGED <<iStatus, status>>

\* the catch block of an iteration: log, then wait()
waitForStatusCatch ==
  /\ wait
  /\ pc' = "statusWait"
  /\ UNCHANGED <<iStatus, status, failures>>

waitForStatusAttempt ==
  /\ pc = "waitForStatus"
  /\ statusLoop(iStatus)
  /\ UNCHANGED iterationsCall
  /\ UNCHANGED <<inputs, context, sha, depVars, targetUrl, urlVars, outputs>>
  /\ request("listDeploymentStatuses")
  /\ \E response \in StatusResponses :
       /\ statuses' = response
       /\ IF statusAccepted(response, ALLOW_INACTIVE)
          THEN /\ status' = response.data[1]
               /\ pc' = "statusReturned"
               /\ UNCHANGED <<iStatus, sleeps, failures>>
          ELSE waitForStatusCatch

\* the sleep of an iteration ends: i++
waitForStatusNext ==
  /\ pc = "statusWait"
  /\ iStatus' = iStatus + 1
  /\ statuses' = NoResponse
  /\ pc' = "waitForStatus"
  /\ UNCHANGED iterationsCall
  /\ UNCHANGED <<inputs, context, sha, depVars, status, targetUrl, urlVars,
                 outputs, failures, calls, sleeps>>

\* the loop ends without a status: report the timeout, return undefined
waitForStatusTimeout ==
  /\ pc = "waitForStatus"
  /\ ~statusLoop(iStatus)
  /\ setFailed(StatusTimeout)
  /\ status' = UndefinedStatus
  /\ pc' = "statusReturned"
  /\ UNCHANGED iterationsCall
  /\ UNCHANGED <<inputs, context, sha, depVars, statuses, iStatus, targetUrl,
                 urlVars, outputs, calls, sleeps>>

\* (variant: no return after the report of the missing target_url)
runAfterStatusNoReturn ==
  /\ pc = "statusReturned"
  /\ statuses' = NoResponse
  /\ IF status.target_url \in {Undefined, ""}
     THEN setFailed(NoTargetUrl)
     ELSE UNCHANGED failures
  /\ targetUrl' = status.target_url
  /\ outputs' = [outputs EXCEPT !.url = status.target_url]
  /\ pc' = "waitForUrl"
  /\ UNCHANGED iterationsCall
  /\ UNCHANGED <<inputs, context, sha, depVars, status, iStatus, urlVars,
                 calls, sleeps>>

\* (variant: the url output is not written before the health check)
runAfterStatusNoOutput ==
  /\ pc = "statusReturned"
  /\ statuses' = NoResponse
  /\ IF status.target_url \in {Undefined, ""}
     THEN /\ setFailed(NoTargetUrl)
          /\ pc' = "done"
          /\ UNCHANGED targetUrl
     ELSE /\ targetUrl' = status.target_url
          /\ pc' = "waitForUrl"
          /\ UNCHANGED failures
  /\ UNCHANGED iterationsCall
  /\ UNCHANGED <<inputs, context, sha, depVars, status, iStatus, urlVars,
                 outputs, calls, sleeps>>

\* run() after waitForStatus has returned: status?.target_url, the url
\* output
runAfterStatus ==
  /\ pc = "statusReturned"
  /\ statuses' = NoResponse
  /\ IF status.target_url \in {Undefined, ""}
     THEN /\ setFailed(NoTargetUrl)
          /\ pc' = "done"
          /\ UNCHANGED <<targetUrl, outputs>>
     ELSE /\ targetUrl' = status.target_url
          /\ outputs' = [outputs EXCEPT !.url = status.target_url]
          /\ pc' = "waitForUrl"
          /\ UNCHANGED failures
  /\ UNCHANGED iterationsCall
  /\ UNCHANGED <<inputs, context, sha, depVars, status, iStatus, urlVars,
                 calls, sleeps>>

\* -------------------------------------------------------------- getPassword
\* validateStatus of the POST
validateStatus(status_code) ==
  status_code >= ValidateStatusLow /\ status_code < ValidateStatusHigh

\* (variant: the last cookie of the name is taken)
findVercelJwtCookieLast(cookies) ==
  LET named == {k \in 1..Len(cookies) : cookies[k].name = "_vercel_jwt"}
  IN IF named # {}
     THEN cookies[CHOOSE k \in named : \A m \in named : k >= m]
     ELSE [name |-> Undefined, value |-> ""]

\* cookies.find(cookie => cookie.name === '_vercel_jwt'); a cookie with the
\* name Undefined when there is none
findVercelJwtCookie(cookies) ==
  LET named == {k \in 1..Len(cookies) : cookies[k].name = "_vercel_jwt"}
  IN IF named # {}
     THEN cookies[CHOOSE k \in named : \A m \in named : k <= m]
     ELSE [name |-> Undefined, value |-> ""]

\* (variant: only a rejected POST throws, a missing token does not)
getPasswordThrowsOnRejection(response) ==
  \/ response.outcome # "response"
  \/ ~validateStatus(response.status)

\* (variant: a _vercel_jwt cookie with an empty value is accepted)
getPasswordThrowsUnlessNamed(response) ==
  \/ response.outcome # "response"
  \/ ~validateStatus(response.status)
  \/ ~response.hasSetCookie
  \/ findVercelJwtCookie(response.cookies).name = Undefined

\* getPassword throws: axios rejects (no response, status not validated), no
\* set-cookie header, no _vercel_jwt cookie or an empty one
getPasswordThrows(response) ==
  \/ response.outcome # "response"
  \/ ~validateStatus(response.status)
  \/ ~response.hasSetCookie
  \/ findVercelJwtCookie(response.cookies).name = Undefined
  \/ findVercelJwtCookie(response.cookies).value = ""

\* the value getPassword returns when it does not throw
getPassword(response) == findVercelJwtCookie(response.cookies).value

\* --------------------------------------------------------------- waitForUrl
\* (variant: only status 200 counts as success)
getSucceedsOnly200(response) ==
  response.outcome = "response" /\ response.status = 200

\* axios' default validateStatus of the GET
getSucceeds(response) ==
  response.outcome = "response" /\ response.status >= 200
    /\ response.status < 300

\* (variant: the bypass header is added to the headers built so far)
withBypassAdded(h) ==
  IF VERCEL_PROTECTION_BYPASS_HEADER # ""
  THEN [Cookie |-> h.Cookie, bypass |-> VERCEL_PROTECTION_BYPASS_HEADER]
  ELSE h

\* if (protectionBypassHeader) headers = {'x-vercel-protection-bypass': ...}
withBypass(h) ==
  IF VERCEL_PROTECTION_BYPASS_HEADER # ""
  THEN [Cookie |-> Undefined, bypass |-> VERCEL_PROTECTION_BYPASS_HEADER]
  ELSE h

\* (variant: the loop condition is i <= iterations)
urlLoopInclusive(i) == i <= iterations

\* for (let i = 0; i < iterations; i++)
urlLoop(i) == i < iterations

\* (variant: the exchange is skipped)
needsPasswordNever == FALSE

\* (variant: the exchange is made without a password, too)
needsPasswordAlways == TRUE

\* (variant: no exchange when a bypass header is configured)
needsPasswordUnlessBypass ==
  VERCEL_PASSWORD # "" /\ VERCEL_PROTECTION_BYPASS_HEADER = ""

\* if (vercelPassword)
needsPassword == VERCEL_PASSWORD # ""

\* an iteration with a password, up to the GET: the POST of getPassword, the
\* Cookie header and the vercel_jwt output; a throwing getPassword lands in
\* the catch of the iteration
waitForUrlPassword ==
  /\ pc = "waitForUrl"
  /\ urlLoop(iUrl)
  /\ needsPassword
  /\ UNCHANGED iterationsCall
  /\ UNCHANGED <<inputs, context, sha, depVars, statusVars, targetUrl,
                 sentHeaders, failures>>
  /\ request("post")
  /\ UNCHANGED getResponse
  /\ \E response \in PostResponses :
       /\ jwtResponse' = response
       /\ IF getPasswordThrows(response)
          THEN /\ wait
               /\ pc' = "urlWait"
               /\ UNCHANGED <<iUrl, headers, outputs>>
          ELSE /\ headers' = [Cookie |-> getPassword(response),
                              bypass |-> Undefined]
               /\ outputs' = [outputs EXCEPT !.vercel_jwt = getPassword(response)]
               /\ pc' = "axiosGet"
               /\ UNCHANGED <<iUrl, sleeps>>

\* the GET of an iteration (the whole iteration when no password is set):
\* success returns from waitForUrl and ends run; anything else is caught and
\* followed by the sleep
waitForUrlGet ==
  /\ \/ pc = "axiosGet"
     \/ pc = "waitForUrl" /\ urlLoop(iUrl) /\ ~needsPassword
  /\ UNCHANGED iterationsCall
  /\ UNCHANGED <<inputs, context, sha, depVars, statusVars, targetUrl,
                 outputs, failures>>
  /\ request("get")
  /\ jwtResponse' = NoPostResponse
  /\ sentHeaders' = withBypass(headers)
  /\ headers' = NoHeaders
  /\ \E response \in GetResponses :
       /\ getResponse' = response
       /\ IF getSucceeds(response)
          THEN /\ pc' = "done"
               /\ UNCHANGED <<iUrl, sleeps>>
          ELSE /\ wait
               /\ pc' = "urlWait"
               /\ UNCHANGED iUrl

\* the sleep of an iteration ends: i++
waitForUrlNext ==
  /\ pc = "urlWait"
  /\ iUrl' = iUrl + 1
  /\ jwtResponse' = NoPostResponse
  /\ getResponse' = NoGetResponse
  /\ headers' = NoHeaders
  /\ pc' = "waitForUrl"
  /\ UNCHANGED iterationsCall
  /\ UNCHANGED <<inputs, context, sha, depVars, statusVars, targetUrl,
                 sentHeaders, outputs, failures, calls, sleeps>>

\* the loop ends without a successful GET
waitForUrlTimeout ==
  /\ pc = "waitForUrl"
  /\ ~urlLoop(iUrl)
  /\ setFailed(UrlTimeout)
  /\ pc' = "done"
  /\ UNCHANGED iterationsCall
  /\ UNCHANGED <<inputs, context, sha, depVars, statusVars, targetUrl,
                 urlVars, outputs, calls, sleeps>>

\* ------------------------------------------------------------ specification
Next ==
  \/ runStart
  \/ getShaForPullRequest
  \/ waitForDeploymentToStartAttempt
  \/ waitForDeploymentToStartNext
  \/ waitForDeploymentToStartExhausted
  \/ runAfterDeployment
  \/ waitForStatusAttempt
  \/ waitForStatusNext
  \/ waitForStatusTimeout
  \/ runAfterStatus
  \/ waitForUrlPassword
  \/ waitForUrlGet
  \/ waitForUrlNext
  \/ waitForUrlTimeout

Spec == Init /\ [][Next]_vars

\* every request is answered and every sleep ends, so a step that is
\* possible is eventually taken
FairSpec == Spec /\ WF_vars(Next)

\* ------------------------------------------------------ the waiters alone
\* A call of one of the three waiters, as run() makes it: the arguments are
\* run's inputs, nothing has been requested or reported yet by the waiter.
WaiterInit ==
  /\ inputs \in {i \in InputSet : i.token = "ghp_token"}
  /\ context = [pull_request |-> "absent", sha |-> "abc"]
  /\ pc \in {"waitForDeploymentToStart", "waitForStatus", "waitForUrl"}
  /\ sha = "abc"
  /\ deployments = NoResponse
  /\ deployment = NullDeployment
  /\ iDeployment = 0
  /\ statuses = NoResponse
  /\ status = IF pc = "waitForUrl"
              THEN [state |-> "success",
                    target_url |-> "https://preview.example.com"]
              ELSE UndefinedStatus
  /\ iStatus = 0
  /\ targetUrl = IF pc = "waitForUrl" THEN "https://preview.example.com"
                 ELSE Undefined
  /\ jwtResponse = NoPostResponse
  /\ headers = NoHeaders
  /\ getResponse = NoGetResponse
  /\ sentHeaders = NoHeaders
  /\ iUrl = 0
  /\ outputs = [url |-> targetUrl, vercel_jwt |-> Undefined]
  /\ failures = <<>>
  /\ calls = [pulls_get |-> 0, listDeployments |-> 0,
              listDeploymentStatuses |-> 0, post |-> 0, get |-> 0]
  /\ sleeps = 0
  /\ iterationsCall = NoCall

\* the steps of a waiter, up to its return
WaiterNext ==
  \/ waitForDeploymentToStartAttempt
  \/ waitForDeploymentToStartNext
  \/ waitForDeploymentToStartExhausted
  \/ waitForStatusAttempt
  \/ waitForStatusNext
  \/ waitForStatusTimeout
  \/ waitForUrlPassword
  \/ waitForUrlGet
  \/ waitForUrlNext
  \/ waitForUrlTimeout

WaiterSpec == WaiterInit /\ [][WaiterNext]_vars

\* ----------------------------------------------- calculateIterations alone
MaxCalcTimeout == 7       \* largest maxTimeoutSec of the dense range
MaxCalcInterval == 35     \* largest checkIntervalInMilliseconds of that range

\* the arguments of a call: every pair of a dense range, the pairs run() can
\* pass (whole seconds, among them the defaults 60 and 2000), and
\* (0, 2000) and (33, 1100)
CalcArgs ==
  ((0..MaxCalcTimeout) \X (1..MaxCalcInterval))
    \cup (((1..MaxTimeoutInput) \cup {DefaultMaxTimeout})
            \X {n * 1000 : n \in (1..MaxIntervalInput)
                                    \cup {DefaultCheckInterval}})
    \cup {<<0, DefaultCheckInterval * 1000>>, <<33, 1100>>}

CalcInit ==
  /\ inputs = [token |-> "ghp_token", vercel_password |-> "",
               vercel_protection_bypass_header |-> "", max_timeout |-> 1,
               check_interval |-> 1, allow_inactive |-> ""]
  /\ context = [pull_request |-> "absent", sha |-> "abc"]
  /\ pc = "calculateIterations"
  /\ sha = Undefined
  /\ deployments = NoResponse
  /\ deployment = NullDeployment
  /\ iDeployment = 0
  /\ statuses = NoResponse
  /\ status = UndefinedStatus
  /\ iStatus = 0
  /\ targetUrl = Undefined
  /\ jwtResponse = NoPostResponse
  /\ headers = NoHeaders
  /\ getResponse = NoGetResponse
  /\ sentHeaders = NoHeaders
  /\ iUrl = 0
  /\ outputs = NoOutputs
  /\ failures = <<>>
  /\ calls = [pulls_get |-> 0, listDeployments |-> 0,
              listDeploymentStatuses |-> 0, post |-> 0, get |-> 0]
  /\ sleeps = 0
  /\ \E args \in CalcArgs :
       iterationsCall = [maxTimeoutSec |-> args[1],
                         checkIntervalInMilliseconds |-> args[2],
                         returned |-> FALSE, value |-> 0]

\* the call returns
calculateIterationsReturn ==
  /\ pc = "calculateIterations"
  /\ ~iterationsCall.returned
  /\ iterationsCall' =
       [iterationsCall EXCEPT
          !.returned = TRUE,
          !.value = calculateIterationsBinary64(
                      iterationsCall.maxTimeoutSec,
                      iterationsCall.checkIntervalInMilliseconds)]
  /\ UNCHANGED <<inputs, context, pc, sha, depVars, statusVars, targetUrl,
                 urlVars, outputs, failures, calls, sleeps>>

CalcNext == calculateIterationsReturn

CalcSpec == CalcInit /\ [][CalcNext]_vars

\* on the arguments run() passes, calculateIterations above is the value
\* of the binary64 computation
IterationsOfRunExact ==
  iterationsCall.returned
    /\ iterationsCall.checkIntervalInMilliseconds % 1000 = 0 =>
      iterationsCall.value =
        calculateIterations(iterationsCall.maxTimeoutSec,
                            iterationsCall.checkIntervalInMilliseconds)

TypeOK ==
  /\ pc \in {"run", "getShaForPullRequest", "waitForDeploymentToStart",
              "deploymentWait", "deploymentReturned", "waitForStatus",
              "statusWait", "statusReturned", "waitForUrl", "axiosGet",
              "urlWait", "done"}
  /\ iDeployment \in 0..iterations
  /\ iStatus \in 0..iterations
  /\ iUrl \in 0..iterations

\* ================================================================== claims
Reported(message) == \E k \in 1..Len(failures) : failures[k] = message

allowInactiveInput == inputs.allow_inactive = "true"

\* the newest entry of an answered status list is success, or inactive with
\* allow_inactive
LatestIsTerminal(r) ==
  /\ r.outcome = "resolved"
  /\ Len(r.data) >= 1
  /\ \/ r.data[1].state = "success"
     \/ allowInactiveInput /\ r.data[1].state = "inactive"

\* C1: waitForStatus returns at the first attempt whose status list is
\* non-empty with a first entry of state success (or inactive, when
\* allow_inactive): it returns exactly that first entry, has made exactly as
\* many fetches as attempts, makes no fetch afterwards and does not report a
\* failure; an entry that is not first never makes an attempt succeed.
C1_FirstTerminalStatusReturned ==
  /\ pc = "waitForStatus" => calls.listDeploymentStatuses = iStatus
  /\ pc = "statusWait" =>
       ~LatestIsTerminal(statuses) /\ calls.listDeploymentStatuses = iStatus + 1
  /\ pc = "statusReturned" /\ LatestIsTerminal(statuses) =>
       /\ status = statuses.data[1]
       /\ iStatus < iterations
  /\ status # UndefinedStatus =>
       /\ calls.listDeploymentStatuses = iStatus + 1
       /\ pc \notin {"waitForStatus", "statusWait"}
       /\ ~Reported(StatusTimeout)
       /\ \/ status.state = "success"
          \/ allowInactiveInput /\ status.state = "inactive"
       /\ pc = "statusReturned" =>
            LatestIsTerminal(statuses) /\ status = statuses.data[1]

\* success on the third attempt, from a list of two entries
C1_Witness ==
  /\ pc = "statusReturned"
  /\ iStatus = 2
  /\ calls.listDeploymentStatuses = 3
  /\ status.state = "success"
  /\ Len(statuses.data) = 2

NonSuccessStates == {"error", "failure", "pending", "queued", "in_progress"}

TransientOutcome(r) ==
  \/ r.outcome = "rejected"
  \/ r.outcome = "resolved" /\ Len(r.data) = 0
  \/ /\ r.outcome = "resolved"
     /\ Len(r.data) > 0
     /\ \/ r.data[1].state \in NonSuccessStates
        \/ ~allowInactiveInput /\ r.data[1].state = "inactive"

C2_TransientState ==
  /\ pc \in {"statusWait", "statusReturned"} /\ TransientOutcome(statuses) =>
       /\ pc = "statusWait"
       /\ status = UndefinedStatus
       /\ failures = <<>>
       /\ iStatus < iterations
  /\ Reported(StatusTimeout) =>
       /\ status = UndefinedStatus
       /\ iStatus = iterations
       /\ calls.listDeploymentStatuses = iterations
       /\ failures[1] = StatusTimeout
  /\ pc = "statusReturned" /\ status = UndefinedStatus =>
       Reported(StatusTimeout)

C2_TransientStep ==
  /\ pc = "statusWait" =>
       /\ pc' = "waitForStatus"
       /\ iStatus' = iStatus + 1
       /\ failures' = failures
       /\ status' = status
  /\ pc = "waitForStatus" /\ iStatus < iterations =>
       calls'.listDeploymentStatuses = calls.listDeploymentStatuses + 1

\* C2: in waitForStatus an attempt whose request throws, whose list is
\* empty or whose newest status is neither success nor an allowed inactive
\* is transient: nothing is returned or reported, the waiter sleeps and, while
\* the budget lasts, makes the next attempt; the Timeout is reported exactly
\* when all N attempts were transient.
C2_TransientStatusRetried ==
  []C2_TransientState /\ [][C2_TransientStep]_vars

\* three polls, none accepted (allow_inactive is false), then the Timeout
C2_Witness ==
  /\ Reported(StatusTimeout)
  /\ iterations = 3
  /\ calls.listDeploymentStatuses = 3
  /\ ~allowInactiveInput

HasMatch(r) ==
  /\ r.outcome = "resolved"
  /\ \E k \in 1..Len(r.data) : r.data[k].login = "vercel[bot]"

IsFirstMatch(r, d) ==
  \E k \in 1..Len(r.data) :
    /\ r.data[k] = d
    /\ d.login = "vercel[bot]"
    /\ \A j \in 1..(k - 1) : r.data[j].login # "vercel[bot]"

\* C3: waitForDeploymentToStart returns, at the first attempt whose request
\* succeeds with an entry created by the actor, the first such entry of the
\* list; a throwing request and a list without match are handled alike (one
\* more sleep, nothing returned or reported, next attempt); with no match in
\* N attempts it returns null.
C3_FirstMatchingDeployment ==
  /\ pc = "waitForDeploymentToStart" =>
       /\ calls.listDeployments = iDeployment
       /\ sleeps = iDeployment
       /\ deployment = NullDeployment
  /\ pc = "deploymentWait" =>
       /\ ~HasMatch(deployments)
       /\ deployments.outcome \in {"rejected", "resolved"}
       /\ deployment = NullDeployment
       /\ calls.listDeployments = iDeployment + 1
       /\ sleeps = iDeployment + 1
       /\ iDeployment < iterations
       /\ failures = <<>>
  /\ pc = "deploymentReturned" /\ HasMatch(deployments) =>
       /\ IsFirstMatch(deployments, deployment)
       /\ calls.listDeployments = iDeployment + 1
       /\ sleeps = iDeployment
       /\ iDeployment < iterations
  /\ pc = "deploymentReturned" /\ ~HasMatch(deployments) =>
       /\ deployment = NullDeployment
       /\ deployments = NoResponse
       /\ iDeployment = iterations
       /\ calls.listDeployments = iterations
       /\ failures = <<>>

\* found at a later attempt, as the second entry behind another creator's
C3_Witness ==
  /\ pc = "deploymentReturned"
  /\ iDeployment >= 1
  /\ Len(deployments.data) = 2
  /\ deployments.data[1].login = "dependabot[bot]"
  /\ deployment = deployments.data[2]

HttpErrorStatuses == {404, 500}

GetThrew(r) ==
  \/ r.outcome = "no_response"
  \/ r.outcome = "response" /\ r.status \in HttpErrorStatuses

\* C4: waitForUrl succeeds at the first attempt whose GET does not throw: it
\* returns without report and no further attempt is made; an attempt whose GET
\* threw (error status or no response) is followed by the sleep and the next
\* attempt, without report.
C4_FirstGoodGetEndsWaiter ==
  /\ getResponse.outcome # "none" => pc \in {"urlWait", "done"}
  /\ pc = "urlWait" /\ getResponse.outcome # "none" =>
       /\ GetThrew(getResponse)
       /\ failures = <<>>
       /\ sleeps = iDeployment + iStatus + iUrl + 1
       /\ iUrl < iterations
  /\ pc = "done" /\ getResponse.outcome # "none" =>
       /\ ~GetThrew(getResponse)
       /\ failures = <<>>
       /\ iUrl < iterations
       /\ sleeps = iDeployment + iStatus + iUrl
       /\ calls.get <= iUrl + 1
       /\ inputs.vercel_password = "" => calls.get = iUrl + 1
       /\ inputs.vercel_password # "" => calls.post = iUrl + 1
  /\ pc = "waitForUrl" =>
       /\ calls.get <= iUrl
       /\ inputs.vercel_password = "" => calls.get = iUrl

\* a GET answered 500, then a GET answered 200, with budget for a third
C4_Witness ==
  /\ pc = "done"
  /\ iUrl = 1
  /\ calls.get = 2
  /\ getResponse.status = 200
  /\ iterations = 3

C5_OriginalStep ==
  /\ calls'.listDeployments > calls.listDeployments =>
       /\ calls.listDeploymentStatuses = 0
       /\ calls.post = 0
       /\ calls.get = 0
  /\ calls'.listDeploymentStatuses > calls.listDeploymentStatuses =>
       /\ calls.post = 0
       /\ calls.get = 0
  /\ calls'.post > calls.post => calls.get = 0

\* C5 as stated: list polls before status polls before password POSTs
\* before health-check GETs, so no POST once a GET has been issued.
C5_NoPostAfterGet == [][C5_OriginalStep]_vars

C5_AmendedStep ==
  /\ calls'.listDeployments > calls.listDeployments =>
       /\ calls.listDeploymentStatuses = 0
       /\ calls.post = 0
       /\ calls.get = 0
  /\ calls'.listDeploymentStatuses > calls.listDeploymentStatuses =>
       /\ calls.post = 0
       /\ calls.get = 0
  /\ calls'.post > calls.post =>
       /\ calls.post = iUrl
       /\ calls.get <= iUrl
  /\ calls'.get > calls.get /\ inputs.vercel_password # "" =>
       /\ calls.post = iUrl + 1
       /\ calls.get <= iUrl

\* C5 (amended): every deployment-list poll precedes every status poll, and
\* every status poll precedes every password POST and every health-check
\* GET.  The password exchange belongs to the health-check attempt: the POST
\* of attempt i is made after the i earlier attempts (and their GETs), and the
\* GET of attempt i follows the POST of attempt i.
C5_StagesOrdered == [][C5_AmendedStep]_vars

\* the POST of the second attempt has been made after the GET of the first
C5_Witness ==
  /\ pc = "axiosGet"
  /\ calls.post = 2
  /\ calls.get = 1

\* the exchange was answered with an accepted status but without a
\* _vercel_jwt cookie that has a value
MissingToken(r) ==
  /\ r.outcome = "response"
  /\ r.status >= 200
  /\ r.status < 307
  /\ ~\E k \in 1..Len(r.cookies) :
        r.cookies[k].name = "_vercel_jwt" /\ r.cookies[k].value # ""

\* C6 as stated: a missing token aborts the run at once with a failure
\* message.
C6_MissingTokenFatal ==
  MissingToken(jwtResponse) => pc = "done" /\ Len(failures) >= 1

\* C6 (amended): a missing token is a transient failure of the health-check
\* attempt: nothing is reported, no GET is issued in that attempt, the waiter
\* sleeps, and every attempt repeats the exchange; the run fails only with
\* the health-check Timeout once the budget is used up.
C6_MissingTokenRetried ==
  /\ MissingToken(jwtResponse) =>
       /\ pc = "urlWait"
       /\ failures = <<>>
       /\ getResponse = NoGetResponse
       /\ calls.post = iUrl + 1
       /\ calls.get <= iUrl
       /\ iUrl < iterations
       /\ sleeps = iDeployment + iStatus + iUrl + 1
  /\ pc = "waitForUrl" /\ inputs.vercel_password # "" => calls.post = iUrl
  /\ Reported(UrlTimeout) =>
       /\ pc = "done"
       /\ failures = <<UrlTimeout>>
       /\ iUrl = iterations

\* a missing token at the second attempt, after the first one failed too
C6_Witness ==
  /\ MissingToken(jwtResponse)
  /\ iUrl = 1
  /\ calls.post = 2
  /\ calls.get = 0

\* C7: core.setFailed is invoked at most once in a run.
C7_AtMostOneFailure == Len(failures) <= 1

\* C8: after a fatal condition of run no later stage is executed: no status
\* poll after a null deployment; no url output, no password exchange and no
\* health-check GET after a status timeout or a missing target_url.
C8_NothingAfterFatal ==
  /\ Reported(NoDeploymentFound) =>
       /\ pc = "done"
       /\ failures = <<NoDeploymentFound>>
       /\ calls.listDeploymentStatuses = 0
       /\ calls.post = 0
       /\ calls.get = 0
       /\ outputs = NoOutputs
  /\ Reported(StatusTimeout) =>
       /\ pc \in {"statusReturned", "done"}
       /\ outputs = NoOutputs
       /\ calls.post = 0
       /\ calls.get = 0
  /\ Reported(NoTargetUrl) =>
       /\ pc = "done"
       /\ outputs = NoOutputs
       /\ calls.post = 0
       /\ calls.get = 0
  /\ pc \in {"waitForUrl", "axiosGet", "urlWait"} =>
       /\ failures = <<>>
       /\ status # UndefinedStatus
       /\ outputs.url = "https://preview.example.com"

\* an accepted status without target_url ended the run
C8_Witness ==
  /\ pc = "done"
  /\ Reported(NoTargetUrl)
  /\ status.state = "success"
  /\ status.target_url = Undefined

\* C9: transient poll failures never fail the run by themselves: no failure
\* is reported while the waiters are polling, and a run whose three waiters
\* each succeed within the budget (with a target_url) ends without report.
C9_TransientNeverFails ==
  /\ pc \in {"waitForDeploymentToStart", "deploymentWait",
              "deploymentReturned", "waitForStatus", "statusWait",
              "waitForUrl", "axiosGet", "urlWait"} =>
       failures = <<>>
  /\ pc = "statusReturned" /\ status # UndefinedStatus => failures = <<>>
  /\ pc = "done" /\ getResponse.outcome = "response"
        /\ getResponse.status \in {200, 204} =>
       failures = <<>>

\* a run that succeeded after a failed attempt in each of the three waiters
C9_Witness ==
  /\ pc = "done"
  /\ getResponse.outcome = "response"
  /\ getResponse.status = 200
  /\ iDeployment >= 1
  /\ iStatus >= 1
  /\ iUrl >= 1
  /\ failures = <<>>

\* attempts of waitForUrl: an attempt starts with the exchange when a
\* password is set, with the GET otherwise
urlAttempts ==
  IF inputs.vercel_password # "" THEN calls.post ELSE calls.get

C10_Budget ==
  /\ calls.listDeployments <= iterations
  /\ calls.listDeploymentStatuses <= iterations
  /\ urlAttempts <= iterations
  /\ calls.get <= urlAttempts
  /\ pc = "deploymentReturned" =>
       IF deployment = NullDeployment
       THEN calls.listDeployments = iterations
       ELSE calls.listDeployments = iDeployment + 1
  /\ pc = "statusReturned" =>
       IF status = UndefinedStatus
       THEN calls.listDeploymentStatuses = iterations
              /\ Reported(StatusTimeout)
       ELSE calls.listDeploymentStatuses = iStatus + 1
              /\ ~Reported(StatusTimeout)
  /\ pc = "done" /\ outputs.url # Undefined =>
       IF getResponse.outcome = "response" /\ getResponse.status \in {200, 204}
       THEN urlAttempts = iUrl + 1 /\ ~Reported(UrlTimeout)
       ELSE urlAttempts = iterations /\ failures = <<UrlTimeout>>

\* C10: every waiter makes at most N attempts, ends before the N-th only on
\* success, and ends with its exhaustion outcome (null, Timeout) only after
\* exactly N attempts; when every request is answered the run terminates.
C10_BoundedAttempts == []C10_Budget /\ <>(pc = "done")

\* the health check timed out after a full budget of three attempts
C10_Witness ==
  /\ pc = "done"
  /\ Reported(UrlTimeout)
  /\ iterations = 3
  /\ urlAttempts = 3
  /\ calls.listDeployments = 3

\* ------------------------------------------------------------------- C11
\* a step that issues the health-check GET of an attempt
IsGet == calls'.get = calls.get + 1

BypassOnly ==
  [Cookie |-> Undefined, bypass |-> VERCEL_PROTECTION_BYPASS_HEADER]

\* C11 as stated: the GET carries the Cookie header whenever the attempt
\* obtained a password token, else the bypass header if one is configured,
\* else no auth header.
C11_OriginalStep ==
  IsGet =>
    sentHeaders' =
      IF headers.Cookie # Undefined THEN headers
      ELSE IF VERCEL_PROTECTION_BYPASS_HEADER # "" THEN BypassOnly
      ELSE NoHeaders

C11_CookieBeforeBypass == [][C11_OriginalStep]_vars

C11_AmendedStep ==
  IsGet =>
    /\ headers.Cookie # Undefined <=> VERCEL_PASSWORD # ""
    /\ sentHeaders' =
         IF VERCEL_PROTECTION_BYPASS_HEADER # "" THEN BypassOnly
         ELSE IF headers.Cookie # Undefined THEN headers
         ELSE NoHeaders

\* C11 (amended): the GET of an attempt carries the bypass header alone if
\* one is configured; otherwise the Cookie header with the token the attempt
\* obtained, if a password is configured; otherwise no auth header.  A GET
\* is preceded by a token of the same attempt exactly when a password is
\* configured.
C11_BypassBeforeCookie == [][C11_AmendedStep]_vars

\* a GET failed after its attempt had obtained a token, with a bypass header
\* configured as well
C11_Witness ==
  /\ pc = "urlWait"
  /\ getResponse # NoGetResponse
  /\ outputs.vercel_jwt = "abc123"
  /\ VERCEL_PROTECTION_BYPASS_HEADER # ""
  /\ sentHeaders = BypassOnly

\* ------------------------------------------------------------------- C12
\* C12: with a password and a bypass header configured, every GET carries
\* the bypass header only, each GET was preceded by an exchange, and the
\* token of the exchange is in the vercel_jwt output.
C12_BypassWinsExchangeStays ==
  VERCEL_PASSWORD # "" /\ VERCEL_PROTECTION_BYPASS_HEADER # "" =>
    /\ calls.get > 0 =>
         /\ sentHeaders.Cookie = Undefined
         /\ sentHeaders.bypass = VERCEL_PROTECTION_BYPASS_HEADER
         /\ outputs.vercel_jwt = "abc123"
    /\ calls.post >= calls.get
    /\ pc = "axiosGet" =>
         /\ calls.post = iUrl + 1
         /\ outputs.vercel_jwt = headers.Cookie
         /\ headers.Cookie # Undefined
    /\ outputs.vercel_jwt # Undefined => calls.post > 0

\* a run with both configured that succeeded at its second GET
C12_Witness ==
  /\ pc = "done"
  /\ VERCEL_PASSWORD # ""
  /\ VERCEL_PROTECTION_BYPASS_HEADER # ""
  /\ getResponse.outcome = "response"
  /\ getResponse.status = 200
  /\ calls.get = 2
  /\ calls.post = 2
  /\ sentHeaders = BypassOnly
  /\ outputs.vercel_jwt = "abc123"

\* ------------------------------------------------------------------- C13
\* the POST was answered with a status validateStatus accepts
Accepted(r) == r.outcome = "response" /\ r.status >= 200 /\ r.status < 307

\* the Set-Cookie header holds a _vercel_jwt cookie with a value
HasValuedJwt(r) ==
  /\ r.hasSetCookie
  /\ \E k \in 1..Len(r.cookies) :
       r.cookies[k].name = "_vercel_jwt" /\ r.cookies[k].value # ""

\* the first _vercel_jwt cookie of the Set-Cookie header has a value
FirstJwtValued(r) ==
  /\ r.hasSetCookie
  /\ \E k \in 1..Len(r.cookies) :
       /\ r.cookies[k].name = "_vercel_jwt"
       /\ r.cookies[k].value # ""
       /\ \A m \in 1..(k - 1) : r.cookies[m].name # "_vercel_jwt"

\* getPassword returned token (pc "axiosGet": the attempt goes on to its GET
\* with the token in the Cookie header and in the vercel_jwt output)
Returned(token) ==
  /\ pc = "axiosGet"
  /\ headers.Cookie = token
  /\ outputs.vercel_jwt = token

\* getPassword threw (the attempt is in its catch, no Cookie header built)
Threw == pc = "urlWait" /\ headers.Cookie = Undefined

\* C13 as stated: getPassword returns the _vercel_jwt value exactly when the
\* status is in [200, 307) and the Set-Cookie header contains a _vercel_jwt
\* cookie with a non-empty value, and throws for every other accepted
\* response.
C13_ReturnsIffSomeValuedCookie ==
  jwtResponse # NoPostResponse =>
    IF Accepted(jwtResponse) /\ HasValuedJwt(jwtResponse)
    THEN \E k \in 1..Len(jwtResponse.cookies) :
           /\ jwtResponse.cookies[k].name = "_vercel_jwt"
           /\ jwtResponse.cookies[k].value # ""
           /\ Returned(jwtResponse.cookies[k].value)
    ELSE Threw

\* C13 (amended): getPassword returns the value of the first _vercel_jwt
\* cookie exactly when the status is in [200, 307) and that first cookie has
\* a non-empty value; for every other response (not accepted, no Set-Cookie
\* header, no such cookie, first such cookie empty) it throws and no token
\* is returned.
C13_ReturnsIffFirstCookieValued ==
  jwtResponse # NoPostResponse =>
    IF Accepted(jwtResponse) /\ FirstJwtValued(jwtResponse)
    THEN \E k \in 1..Len(jwtResponse.cookies) :
           /\ jwtResponse.cookies[k].name = "_vercel_jwt"
           /\ \A m \in 1..(k - 1) : jwtResponse.cookies[m].name # "_vercel_jwt"
           /\ Returned(jwtResponse.cookies[k].value)
    ELSE Threw

\* getPassword returned the token of a 303 whose second cookie is the
\* _vercel_jwt cookie
C13_Witness ==
  /\ pc = "axiosGet"
  /\ jwtResponse.status = 303
  /\ Len(jwtResponse.cookies) = 2
  /\ jwtResponse.cookies[1].name = "other"
  /\ jwtResponse.cookies[2] = [name |-> "_vercel_jwt", value |-> "abc123"]
  /\ headers.Cookie = "abc123"
  /\ outputs.vercel_jwt = "abc123"

\* ------------------------------------------------------------------- C14
\* the run has ended with a health-check GET that succeeded
RunSucceeded ==
  /\ pc = "done"
  /\ getResponse.outcome = "response"
  /\ getResponse.status \in {200, 204}

C14_Step ==
  /\ RunSucceeded' /\ VERCEL_PASSWORD = ""
       /\ VERCEL_PROTECTION_BYPASS_HEADER = "" =>
       /\ status'.state \in {"success", "inactive"}
       /\ status'.target_url \notin {Undefined, ""}
       /\ outputs'.url = status'.target_url
       /\ failures' = <<>>
       /\ outputs'.vercel_jwt = Undefined
       /\ calls'.post = 0
  /\ outputs'.vercel_jwt # outputs.vercel_jwt =>
       /\ VERCEL_PASSWORD # ""
       /\ calls'.post = calls.post + 1
       /\ Accepted(jwtResponse')
       /\ FirstJwtValued(jwtResponse')
       /\ outputs'.vercel_jwt = "abc123"
  /\ VERCEL_PASSWORD = "" => outputs'.vercel_jwt = Undefined

\* C14: a run without password and bypass header whose deployment was
\* found, whose latest status was accepted with a target_url and whose GET
\* succeeded has url = that target_url, no failure report and no vercel_jwt
\* output; vercel_jwt is written only by an exchange that returned a token,
\* in a run with a password.
C14_PlainRunOutputs == [][C14_Step]_vars

\* the plain run: success status, first GET answered 200
C14_Witness ==
  /\ RunSucceeded
  /\ VERCEL_PASSWORD = ""
  /\ VERCEL_PROTECTION_BYPASS_HEADER = ""
  /\ status = [state |-> "success",
               target_url |-> "https://preview.example.com"]
  /\ outputs = [url |-> "https://preview.example.com",
                vercel_jwt |-> Undefined]
  /\ calls.get = 1
  /\ failures = <<>>

\* ------------------------------------------------------------------- C15
NoCalls ==
  /\ calls.listDeployments = 0
  /\ calls.listDeploymentStatuses = 0
  /\ calls.post = 0
  /\ calls.get = 0

\* C15: a waiter whose iteration count is 0 makes no request and does not
\* sleep; its first step is its exhaustion outcome: null from
\* waitForDeploymentToStart (nothing reported), the status Timeout report
\* and undefined from waitForStatus, the Timeout report of waitForUrl.
C15_ZeroIterations ==
  iterations = 0 =>
    /\ NoCalls
    /\ sleeps = 0
    /\ pc \in {"waitForDeploymentToStart", "waitForStatus", "waitForUrl",
                "deploymentReturned", "statusReturned", "done"}
    /\ pc \in {"waitForDeploymentToStart", "waitForStatus", "waitForUrl"} =>
         failures = <<>>
    /\ pc = "deploymentReturned" =>
         deployment = NullDeployment /\ failures = <<>>
    /\ pc = "statusReturned" =>
         status = UndefinedStatus /\ failures = <<StatusTimeout>>
    /\ pc = "done" =>
         failures = <<UrlTimeout>> /\ outputs.vercel_jwt = Undefined

\* waitForUrl, called with a password and a bypass header and a budget of
\* 0 attempts, has timed out
C15_Witness ==
  /\ iterations = 0
  /\ pc = "done"
  /\ VERCEL_PASSWORD # ""
  /\ VERCEL_PROTECTION_BYPASS_HEADER # ""
  /\ failures = <<UrlTimeout>>
  /\ NoCalls
  /\ sleeps = 0

\* ------------------------------------------------------------------- C16
\* C16: calculateIterations(maxTimeoutSec, checkIntervalInMilliseconds) is
\* floor(maxTimeoutSec * 1000 / checkIntervalInMilliseconds) for every
\* non-negative integer timeout and positive integer interval of the range,
\* never negative, 30 for (60, 2000) and 0 for (0, 2000).
C16_ExactFloor ==
  iterationsCall.returned =>
    /\ iterationsCall.value =
         (iterationsCall.maxTimeoutSec * 1000)
           \div iterationsCall.checkIntervalInMilliseconds
    /\ iterationsCall.value >= 0
    /\ iterationsCall.maxTimeoutSec = 60
         /\ iterationsCall.checkIntervalInMilliseconds = 2000 =>
         iterationsCall.value = 30
    /\ iterationsCall.maxTimeoutSec = 0 => iterationsCall.value = 0

\* what does hold of the value: it is the floor or one less, never negative,
\* and the two documented values
C16_FloorOrOneLess ==
  iterationsCall.returned =>
    LET exact == (iterationsCall.maxTimeoutSec * 1000)
                   \div iterationsCall.checkIntervalInMilliseconds
    IN /\ iterationsCall.value \in {exact, exact - 1}
       /\ iterationsCall.value >= 0
       /\ iterationsCall.maxTimeoutSec = 60
            /\ iterationsCall.checkIntervalInMilliseconds = 2000 =>
            iterationsCall.value = 30
       /\ iterationsCall.maxTimeoutSec = 0 => iterationsCall.value = 0

\* ------------------------------------------------------------------- C17
C17_Step ==
  /\ pc \in {"waitForDeploymentToStart", "deploymentWait"} =>
       /\ failures = <<>>
       /\ failures' = failures
       /\ pc' \in {"waitForDeploymentToStart", "deploymentWait",
                   "deploymentReturned"}
  /\ pc = "waitForDeploymentToStart" /\ iDeployment >= iterations =>
       pc' = "deploymentReturned" /\ deployment' = NullDeployment
  /\ pc = "deploymentReturned" =>
       IF deployment = NullDeployment
       THEN failures' = <<NoDeploymentFound>> /\ pc' = "done"
       ELSE failures' = <<>> /\ pc' = "waitForStatus"

\* C17: no step of waitForDeploymentToStart (match, rejected request,
\* exhausted budget) reports a failure; on exhaustion it returns null, and
\* run() then reports 'no vercel deployment found' and ends.
C17_NullIsReportedByRun == [][C17_Step]_vars

\* the budget of three polls was used up, one of them rejected, and run()
\* has reported the missing deployment
C17_Witness ==
  /\ pc = "done"
  /\ failures = <<NoDeploymentFound>>
  /\ iterations = 3
  /\ iDeployment = 3
  /\ calls.listDeployments = 3
  /\ calls.listDeploymentStatuses = 0
  /\ sleeps = 3

\* ------------------------------------------------------------------- C18
\* the exchange of the current attempt has returned a token
ExchangeReturned(r) == Accepted(r) /\ FirstJwtValued(r)

\* C18: with a password configured, an attempt whose exchange fails (POST
\* rejected or no token) issues no GET, with or without a bypass header,
\* and still uses up one attempt; a run in which no exchange returned a
\* token ends with the Timeout of the health check, without any GET.
C18_FailedExchangeSkipsGet ==
  VERCEL_PASSWORD # "" =>
    /\ pc = "axiosGet" => ExchangeReturned(jwtResponse)
    /\ pc = "urlWait" /\ jwtResponse # NoPostResponse =>
         /\ ~ExchangeReturned(jwtResponse)
         /\ getResponse = NoGetResponse
         /\ calls.post = iUrl + 1
         /\ calls.get <= iUrl
    /\ outputs.vercel_jwt = Undefined => calls.get = 0
    /\ pc = "done" /\ outputs.url # Undefined
         /\ outputs.vercel_jwt = Undefined =>
         /\ failures = <<UrlTimeout>>
         /\ calls.post = iterations
         /\ iUrl = iterations

\* password and bypass header configured, three exchanges failed: Timeout
\* without a GET
C18_Witness ==
  /\ pc = "done"
  /\ VERCEL_PASSWORD # ""
  /\ VERCEL_PROTECTION_BYPASS_HEADER # ""
  /\ failures = <<UrlTimeout>>
  /\ iterations = 3
  /\ calls.post = 3
  /\ calls.get = 0
  /\ outputs.vercel_jwt = Undefined

\* ------------------------------------------------------------------- C19
\* C19: each waiter counts its own attempts from 0 against the same N: at
\* the head of its loop a waiter has made exactly as many attempts as its
\* own index says, whatever the earlier waiters used; it gives up only
\* after N attempts of its own; so a run makes at most N polls of the
\* deployments, N polls of the statuses and N health-check attempts, 3N
\* in all.
C19_BudgetPerWaiter ==
  /\ pc = "waitForDeploymentToStart" => calls.listDeployments = iDeployment
  /\ pc = "waitForStatus" => calls.listDeploymentStatuses = iStatus
  /\ pc = "waitForUrl" => urlAttempts = iUrl
  /\ iDeployment <= iterations /\ iStatus <= iterations /\ iUrl <= iterations
  /\ calls.listDeployments \in {iDeployment, iDeployment + 1}
  /\ calls.listDeploymentStatuses \in {iStatus, iStatus + 1}
  /\ urlAttempts \in {iUrl, iUrl + 1}
  /\ Reported(StatusTimeout) => calls.listDeploymentStatuses = iterations
  /\ Reported(UrlTimeout) => urlAttempts = iterations
  /\ Reported(NoDeploymentFound) => calls.listDeployments = iterations
  /\ calls.listDeployments + calls.listDeploymentStatuses + urlAttempts
       <= 3 * iterations

\* a run that used the whole budget of three attempts in each waiter and
\* succeeded with the last one
C19_Witness ==
  /\ pc = "done"
  /\ failures = <<>>
  /\ iterations = 3
  /\ calls.listDeployments = 3
  /\ calls.listDeploymentStatuses = 3
  /\ urlAttempts = 3
  /\ getResponse.outcome = "response"
  /\ getResponse.status = 204

\* ------------------------------------------------------------------- C20
\* C20: the url output is written when run() has a status with a
\* target_url, before the first attempt of the health check: it is unset
\* up to the return of waitForStatus, set to the target_url during the
\* whole health check and in every run that ends with the Timeout of the
\* health check; a run that ends without failure has url set and ended
\* with a successful GET.
C20_UrlPublishedBeforeHealthCheck ==
  /\ pc \in {"run", "getShaForPullRequest", "waitForDeploymentToStart",
              "deploymentWait", "deploymentReturned", "waitForStatus",
              "statusWait", "statusReturned"} =>
       outputs.url = Undefined
  /\ outputs.url = Undefined => calls.post = 0 /\ calls.get = 0
  /\ pc \in {"waitForUrl", "axiosGet", "urlWait"} =>
       /\ outputs.url = status.target_url
       /\ outputs.url \notin {Undefined, ""}
  /\ Reported(UrlTimeout) => outputs.url = status.target_url
                               /\ outputs.url \notin {Undefined, ""}
  /\ pc = "done" /\ failures = <<>> =>
       /\ outputs.url = status.target_url
       /\ outputs.url \notin {Undefined, ""}
       /\ calls.get >= 1
       /\ getResponse.outcome = "response"
       /\ getResponse.status >= 200
       /\ getResponse.status < 300

\* the health check timed out after two failed GETs; url is published
C20_Witness ==
  /\ pc = "done"
  /\ failures = <<UrlTimeout>>
  /\ outputs.url = "https://preview.example.com"
  /\ calls.get = 2
  /\ iterations = 2

====
